---- MODULE Spec2Model ----
(***************************************************************************)
(* Model of src/src/arm.rs of ddc-macos-rs: the I2C transaction executor   *)
(* (execute) and the display service locator (get_display_av_service with  *)
(* its chip-address resolver i2c_address).                                 *)
(*                                                                         *)
(* The operating system is the environment: every status a kernel or I2C   *)
(* call returns, and the registry the iterator walks, is chosen            *)
(* nondeterministically from bounded sets.                                 *)
(***************************************************************************)
EXTENDS Integers, Sequences, FiniteSets, TLC

(***************************************************************************)
(* Program constants                                                       *)
(***************************************************************************)
KERN_SUCCESS == 0
I2C_ADDRESS_DDC_CI == 55
SUB_ADDRESS_DDC_CI == 81
I2C_ADDRESS_DDC_CI_MDCP29XX == 183

(***************************************************************************)
(* Bounds                                                                  *)
(***************************************************************************)
MaxReqLen == 3
MaxOutLen == 2
MaxErrCode == 2

\* Non-success statuses a kernel or I2C call may return.
ErrCodes == 1..MaxErrCode
Statuses == {KERN_SUCCESS} \cup ErrCodes

\* Byte values used to fill request buffers.
ReqBytes == {110, 81}

\* The request of the DDC/CI "get VCP feature" example: address byte first.
ExampleRequest == <<110, 81, 130, 1, 16>>

\* The sequences over S of length at most n.
SeqsUpTo(S, n) == UNION {[1..k -> S] : k \in 0..n}

Requests == SeqsUpTo(ReqBytes, MaxReqLen) \cup {ExampleRequest}
OutLens == 0..MaxOutLen
ChipAddresses == {I2C_ADDRESS_DDC_CI, I2C_ADDRESS_DDC_CI_MDCP29XX}
Delays == {40, 50}

MaxNodes == 2
MaxLongNodes == 4

\* Marks a property the registry does not hold (a null CFTypeRef).
NullRef == "NULL"

\* Location strings of displays, and paths of registry nodes.
DisplayLocations == {"IOService:/dispext0"}
NodePaths == {"IOService:/dispext0", "IOService:/dispext1"}

\* What the metadata dictionary holds under "IODisplayLocation".
DisplayLocationValues ==
    {[type |-> "absent", str |-> ""], [type |-> "number", str |-> ""]}
        \cup {[type |-> "string", str |-> p] : p \in DisplayLocations}

Displays == [builtin : BOOLEAN, info : DisplayLocationValues]

\* Values of a node's "Location" property.
LocationProps == {NullRef, "External", "Embedded"}

\* Values of the parent's "EPICProviderClass" property.
ClassProps == {NullRef, "AppleDCPMCDP29XX", "AppleDCPDPTXController"}

\* A registry node: its path and name ("fail" when the kernel call for it
\* does not succeed), whether IOAVServiceCreateWithService returns null for
\* it, and its "Location" property.  Only a node named DCPAVServiceProxy is
\* ever asked for a handle and a Location; the other nodes carry the values
\* that would qualify.
ProxyNodes ==
    [path : NodePaths \cup {"fail"}, name : {"DCPAVServiceProxy"},
     av_null : BOOLEAN, loc : LocationProps]
PlainNodes ==
    [path : NodePaths \cup {"fail"}, name : {"AppleCLCD2", "fail"},
     av_null : {FALSE}, loc : {"External"}]
Nodes == ProxyNodes \cup PlainNodes

\* The nodes of the longer registries: every path and name lookup outcome
\* but a failing path, proxies with a handle and a Location.
CoreNodes == {n \in Nodes : n.path # "fail" /\ ~n.av_null /\ n.loc # NullRef}

\* The registries of k nodes: every node up to MaxNodes nodes, the
\* CoreNodes up to MaxLongNodes nodes.
Registries(k) == [1..k -> IF k <= MaxNodes THEN Nodes ELSE CoreNodes]

VARIABLES
    e_pc,            \* position inside execute: idle, write, sleep, read, done
    request_data,    \* argument request_data
    out_len,         \* length of the argument out
    chip,            \* argument i2c_address of execute
    response_delay,  \* argument response_delay
    events,          \* the external calls execute has made, in order
    e_status,        \* statuses the I2C calls returned, in order
    e_result,        \* what execute returned
    l_pc,            \* position inside get_display_av_service
    display,         \* argument display
    location,        \* local `location`
    registry,        \* the nodes the iterator yields, in traversal order
    iter_open,       \* IoIterator::root() has returned an iterator
    pos,             \* number of nodes the iterator has yielded
    next_calls,      \* number of calls of iter.next()
    matched,         \* index of the node whose path matched, 0 if none
    l_status,        \* the non-success status of the failed name lookup
    parent_status,   \* status of IORegistryEntryGetParentEntry
    class_prop,      \* the parent's "EPICProviderClass" property
    l_result,        \* what get_display_av_service returned
    live,            \* registry handles acquired and not yet released
    double_free,     \* a handle was released that was not held
    av_live,         \* nodes whose non-null IOAVService has not been released
    ignored,         \* nodes whose path lookup returned a non-success status
    in_scope         \* the node returned lies under the matched node's parent

evars == <<e_pc, request_data, out_len, chip, response_delay, events, e_status, e_result>>
lvars == <<l_pc, display, location, registry, iter_open, pos, next_calls, matched,
           l_status, parent_status, class_prop, l_result,
           live, double_free, av_live, ignored, in_scope>>
vars == <<evars, lvars>>

(***************************************************************************)
(* External calls as events                                                *)
(***************************************************************************)
WriteEv(c, sub, payload, n) ==
    [op |-> "write", chip |-> c, addr |-> sub, data |-> payload, len |-> n]
SleepEv(d) ==
    [op |-> "sleep", chip |-> 0, addr |-> 0, data |-> << >>, len |-> d]
ReadEv(c, off, n) ==
    [op |-> "read", chip |-> c, addr |-> off, data |-> << >>, len |-> n]

(***************************************************************************)
(* Results                                                                 *)
(***************************************************************************)
NoResult == [kind |-> "none", buf |-> "none", len |-> 0, code |-> 0]
OkSlice(b, n) == [kind |-> "Ok", buf |-> b, len |-> n, code |-> 0]
ErrKernel(c) == [kind |-> "Kernel", buf |-> "none", len |-> 0, code |-> c]
Panicked == [kind |-> "panic", buf |-> "none", len |-> 0, code |-> 0]

OkUnit == [kind |-> "Ok", buf |-> "none", len |-> 0, code |-> 0]

\* crate::error::verify_io: success passes, any other status is Kernel(code).
verify_io(st) == IF st = KERN_SUCCESS THEN OkUnit ELSE ErrKernel(st)

(***************************************************************************)
(* execute                                                                 *)
(***************************************************************************)
ExecuteCall ==
    /\ e_pc = "idle"
    /\ \E r \in Requests, n \in OutLens, c \in ChipAddresses, d \in Delays :
          /\ request_data' = r
          /\ out_len' = n
          /\ chip' = c
          /\ response_delay' = d
    /\ e_pc' = "write"
    /\ UNCHANGED <<events, e_status, e_result>>
    /\ UNCHANGED lvars

SkipFirst_Keep(r) == r

\* request_data[1..] (the slice panics when the request is empty).
SkipFirst(r) == SubSeq(r, 2, Len(r))

\* Lines 33-40: the arguments of IOAVServiceWriteI2C for chip address c and
\* request r.  The length is computed after the slice, so only for Len(r) >= 1,
\* where `(len - 1) as u32` does not wrap.
WriteArgs(c, r) == WriteEv(c, SUB_ADDRESS_DDC_CI, SkipFirst(r), Len(r) - 1)

WriteCall_AddressFromRequest ==
    WriteEv(request_data[1], SUB_ADDRESS_DDC_CI, SkipFirst(request_data),
            Len(request_data) - 1)

\* The arguments of IOAVServiceWriteI2C.
WriteCall == WriteArgs(chip, request_data)

SliceFromPanics_Never(r, from) == FALSE

\* Line 38: `request_data[from..]` panics when from is past the end.
SliceFromPanics(r, from) == from > Len(r)

ReadCall_RequestLen == ReadEv(chip, 0, Len(request_data) - 1)

\* The arguments of IOAVServiceReadI2C.
ReadCall == ReadEv(chip, 0, out_len)

AfterWrite_Unchecked(st) ==
    IF out_len # 0 THEN [pc |-> "sleep", res |-> e_result]
    ELSE [pc |-> "done", res |-> OkSlice("empty", 0)]

\* `?` on the write, then the branch on out.is_empty().
AfterWrite(st) ==
    LET r == verify_io(st)
    IN  IF r.kind # "Ok" THEN [pc |-> "done", res |-> r]
        ELSE IF out_len # 0 THEN [pc |-> "sleep", res |-> e_result]
        ELSE [pc |-> "done", res |-> OkSlice("empty", 0)]

AfterRead_Retry(st) ==
    LET r == verify_io(st)
    IN  IF r.kind # "Ok" /\ Len(e_status) < 2 THEN [pc |-> "read", res |-> e_result]
        ELSE IF r.kind # "Ok" THEN [pc |-> "done", res |-> r]
        ELSE [pc |-> "done", res |-> OkSlice("out", out_len)]

\* `?` on the read, then Ok(out).
AfterRead(st) ==
    LET r == verify_io(st)
    IN  IF r.kind # "Ok" THEN [pc |-> "done", res |-> r]
        ELSE [pc |-> "done", res |-> OkSlice("out", out_len)]

\* The write phase: the slice of the request, the write call and its check.
ExecWrite ==
    /\ e_pc = "write"
    /\ IF SliceFromPanics(request_data, 1)
       THEN /\ e_pc' = "done"
            /\ e_result' = Panicked
            /\ UNCHANGED <<events, e_status>>
       ELSE \E st \in Statuses :
            /\ events' = Append(events, WriteCall)
            /\ e_status' = Append(e_status, st)
            /\ e_pc' = AfterWrite(st).pc
            /\ e_result' = AfterWrite(st).res
    /\ UNCHANGED <<request_data, out_len, chip, response_delay>>
    /\ UNCHANGED lvars

\* std::thread::sleep(response_delay).
ExecSleep ==
    /\ e_pc = "sleep"
    /\ events' = Append(events, SleepEv(response_delay))
    /\ e_pc' = "read"
    /\ UNCHANGED <<request_data, out_len, chip, response_delay, e_status, e_result>>
    /\ UNCHANGED lvars

\* The read phase: the read call and its check.
ExecRead ==
    /\ e_pc = "read"
    /\ \E st \in Statuses :
          /\ events' = Append(events, ReadCall)
          /\ e_status' = Append(e_status, st)
          /\ e_pc' = AfterRead(st).pc
          /\ e_result' = AfterRead(st).res
    /\ UNCHANGED <<request_data, out_len, chip, response_delay>>
    /\ UNCHANGED lvars

(***************************************************************************)
(* get_display_av_service                                                  *)
(***************************************************************************)
NoLocate == [kind |-> "none", handle |-> 0, addr |-> 0, code |-> 0]
LocateOk(h, a) == [kind |-> "Ok", handle |-> h, addr |-> a, code |-> 0]
ServiceNotFound == [kind |-> "ServiceNotFound", handle |-> 0, addr |-> 0, code |-> 0]
DisplayLocationNotFound ==
    [kind |-> "DisplayLocationNotFound", handle |-> 0, addr |-> 0, code |-> 0]
LocateKernel(c) == [kind |-> "Kernel", handle |-> 0, addr |-> 0, code |-> c]

\* crate::kern_try!: a status other than KERN_SUCCESS returns Kernel(code).
kern_try(st) == IF st = KERN_SUCCESS THEN NoLocate ELSE LocateKernel(st)

\* IoIterator::root(): the error when the registry root cannot be opened.
IoIterator_root_error == ServiceNotFound

\* IoIterator::next(): the index of the node yielded, 0 at exhaustion.
IoIterator_next == IF pos = Len(registry) THEN 0 ELSE pos + 1

\* The statuses IORegistryEntryGetPath may return for node k.
PathStatuses(k) == IF registry[k].path = "fail" THEN ErrCodes ELSE {KERN_SUCCESS}

\* The statuses IORegistryEntryGetName may return for node k.
NameStatuses(k) == IF registry[k].name = "fail" THEN ErrCodes ELSE {KERN_SUCCESS}

\* get_service_registry_entry_path: Err(Kernel(st)) or Ok(path).
get_service_registry_entry_path(k, st) ==
    IF kern_try(st).kind = "Kernel" THEN [ok |-> FALSE, str |-> "", err |-> kern_try(st)]
    ELSE [ok |-> TRUE, str |-> registry[k].path, err |-> NoLocate]

get_service_registry_entry_name_Unchecked(k, st) ==
    [ok |-> TRUE, str |-> IF st = KERN_SUCCESS THEN registry[k].name ELSE "", err |-> NoLocate]

\* get_service_registry_entry_name: Err(Kernel(st)) or Ok(name).
get_service_registry_entry_name(k, st) ==
    IF kern_try(st).kind = "Kernel" THEN [ok |-> FALSE, str |-> "", err |-> kern_try(st)]
    ELSE [ok |-> TRUE, str |-> registry[k].name, err |-> NoLocate]

\* IOAVServiceCreateWithService: null (0), or the handle made from node k.
IOAVServiceCreateWithService(k) == IF registry[k].av_null THEN 0 ELSE k

\* Lines 116-123: the property is read only from a parent that was found.
ClassReads(pst) == IF pst # KERN_SUCCESS THEN {NullRef} ELSE ClassProps

i2c_address_Inverted(pst, cls) ==
    IF pst # KERN_SUCCESS THEN I2C_ADDRESS_DDC_CI
    ELSE IF cls = NullRef THEN I2C_ADDRESS_DDC_CI
    ELSE IF cls = "AppleDCPMCDP29XX" THEN I2C_ADDRESS_DDC_CI
    ELSE I2C_ADDRESS_DDC_CI_MDCP29XX

\* i2c_address, given what the parent lookup and the property read return.
i2c_address(pst, cls) ==
    IF pst # KERN_SUCCESS THEN I2C_ADDRESS_DDC_CI
    ELSE IF cls = NullRef THEN I2C_ADDRESS_DDC_CI
    ELSE IF cls = "AppleDCPMCDP29XX" THEN I2C_ADDRESS_DDC_CI_MDCP29XX
    ELSE I2C_ADDRESS_DDC_CI

(***************************************************************************)
(* Ownership of the handles the calls return                               *)
(***************************************************************************)
NodeH(k) == [kind |-> "node", node |-> k]
ParentH(k) == [kind |-> "parent", node |-> k]
PropH(k, key) == [kind |-> key, node |-> k]

\* crate::iokit::IoObject: dropping the wrapper releases the node.
IoObject_drop(k) == {NodeH(k)}

\* Lines 81-90: a non-null Location value is owned by a CFType wrapper, which
\* releases it when it goes out of scope.
LocationAcquired(k) ==
    IF registry[k].loc # NullRef THEN {PropH(k, "Location")} ELSE {}
LocationReleased(k) == LocationAcquired(k)

\* Lines 110-115: a successful IORegistryEntryGetParentEntry returns an
\* entry the caller owns.
ParentAcquired(k, pst) == IF pst = KERN_SUCCESS THEN {ParentH(k)} ELSE {}

\* Lines 106-134: `parent` is a raw io_registry_entry_t and no path of
\* i2c_address releases it.
ParentReleased(k, pst) == {}

\* Lines 116-128: a non-null class value is owned by a CFType wrapper.
ClassAcquired(k, pst, cls) ==
    IF pst = KERN_SUCCESS /\ cls # NullRef THEN {PropH(k, "EPICProviderClass")} ELSE {}
ClassReleased(k, pst, cls) == ClassAcquired(k, pst, cls)

\* Line 80: a non-null IOAVService is owned by the caller of the constructor.
AvCreated(k) == IF IOAVServiceCreateWithService(k) # 0 THEN {k} ELSE {}

\* Lines 89-95: a candidate that is not returned leaves the loop body with
\* `av_service`, a raw CFTypeRef, never released.
AvReleasedOnReject(k) == {}

\* The handles held after acquiring A and releasing R; every handle is
\* acquired once, so a second release is a release of a handle not held.
Held(A, R) == (live \cup A) \ R
BadRelease(A, R) == \E h \in R : h \notin (live \cup A)

PathMatches_ByName(r) == r.ok /\ registry[pos + 1].name = location

\* Lines 76-77: the path lookup succeeded and equals the display's location.
PathMatches(r) == r.ok /\ r.str = location

IsProxyName_Any(nm) == TRUE

\* Line 79: the name is the proxy's.
IsProxyName(nm) == nm = "DCPAVServiceProxy"

Qualifies_NoLocationCheck(k) ==
    /\ registry[k].loc # NullRef
    /\ IOAVServiceCreateWithService(k) # 0

Qualifies_NoNullCheck(k) ==
    /\ registry[k].loc # NullRef
    /\ registry[k].loc = "External"

\* Lines 89-91: the Location property is present, the handle non-null and
\* the Location equal to "External".
Qualifies(k) ==
    /\ registry[k].loc # NullRef
    /\ IOAVServiceCreateWithService(k) # 0
    /\ registry[k].loc = "External"

Prelude_NoBuiltinCheck(d) ==
    IF d.info.type = "absent"
         THEN [pc |-> "done", res |-> DisplayLocationNotFound, loc |-> ""]
    ELSE IF d.info.type # "string"
         THEN [pc |-> "done", res |-> DisplayLocationNotFound, loc |-> ""]
    ELSE [pc |-> "root", res |-> NoLocate, loc |-> d.info.str]

Prelude_DowncastUnchecked(d) ==
    IF d.builtin THEN [pc |-> "done", res |-> ServiceNotFound, loc |-> ""]
    ELSE IF d.info.type = "absent"
         THEN [pc |-> "done", res |-> DisplayLocationNotFound, loc |-> ""]
    ELSE [pc |-> "root", res |-> NoLocate, loc |-> d.info.str]

\* Lines 61-72: the built-in check and the display's location string.
Prelude(d) ==
    IF d.builtin THEN [pc |-> "done", res |-> ServiceNotFound, loc |-> ""]
    ELSE IF d.info.type = "absent"
         THEN [pc |-> "done", res |-> DisplayLocationNotFound, loc |-> ""]
    ELSE IF d.info.type # "string"
         THEN [pc |-> "done", res |-> DisplayLocationNotFound, loc |-> ""]
    ELSE [pc |-> "root", res |-> NoLocate, loc |-> d.info.str]

LocateCall ==
    /\ l_pc = "idle"
    /\ \E d \in Displays :
          /\ display' = d
          /\ l_pc' = Prelude(d).pc
          /\ l_result' = Prelude(d).res
          /\ location' = Prelude(d).loc
    /\ UNCHANGED <<registry, iter_open, pos, next_calls, matched, l_status,
                   parent_status, class_prop>>
    /\ UNCHANGED <<live, double_free, av_live, ignored, in_scope>>
    /\ UNCHANGED evars

\* Line 74: IoIterator::root()?.
IterRoot ==
    /\ l_pc = "root"
    /\ \/ /\ l_pc' = "done"
          /\ l_result' = IoIterator_root_error
          /\ UNCHANGED <<registry, iter_open>>
       \/ /\ \E k \in 0..MaxLongNodes : \E r \in Registries(k) : registry' = r
          /\ iter_open' = TRUE
          /\ l_pc' = "outer"
          /\ UNCHANGED l_result
    /\ UNCHANGED <<display, location, pos, next_calls, matched, l_status,
                   parent_status, class_prop>>
    /\ UNCHANGED <<live, double_free, av_live, ignored, in_scope>>
    /\ UNCHANGED evars

AfterPath_AnyPath(k, r) ==
    IF r.ok THEN [pc |-> "inner", m |-> k, res |-> l_result]
    ELSE [pc |-> l_pc, m |-> matched, res |-> l_result]

\* Lines 76-77: `if let Ok(..)` and the comparison; any other outcome of the
\* path lookup leaves the outer loop running.
AfterPath(k, r) ==
    IF PathMatches(r) THEN [pc |-> "inner", m |-> k, res |-> l_result]
    ELSE [pc |-> l_pc, m |-> matched, res |-> l_result]

InnerExhaustedPc_Retry == "inner"

\* Lines 96-99: when the inner `while let` ends, the outer one goes on.
InnerExhaustedPc == "outer"

\* Lines 75-77 and 97-100: one turn of the outer loop.
OuterNext ==
    /\ l_pc = "outer"
    /\ next_calls' = next_calls + 1
    /\ IF IoIterator_next = 0
       THEN /\ l_pc' = "done"
            /\ l_result' = ServiceNotFound
            /\ UNCHANGED <<pos, matched, live, double_free, ignored>>
       ELSE /\ pos' = IoIterator_next
            /\ \E st \in PathStatuses(IoIterator_next) :
                  LET k == IoIterator_next
                      r == get_service_registry_entry_path(k, st)
                      A == {NodeH(k)}
                      R == IF AfterPath(k, r).pc = "inner" THEN {} ELSE IoObject_drop(k)
                  IN  /\ l_pc' = AfterPath(k, r).pc
                      /\ matched' = AfterPath(k, r).m
                      /\ l_result' = AfterPath(k, r).res
                      /\ ignored' = IF r.ok THEN ignored ELSE ignored \cup {k}
                      /\ live' = Held(A, R)
                      /\ double_free' = (double_free \/ BadRelease(A, R))
    /\ UNCHANGED <<display, location, registry, iter_open, l_status,
                   parent_status, class_prop, av_live, in_scope>>
    /\ UNCHANGED evars

\* Lines 78-96: one turn of the inner loop.
InnerNext ==
    /\ l_pc = "inner"
    /\ next_calls' = next_calls + 1
    /\ IF IoIterator_next = 0
       THEN /\ l_pc' = InnerExhaustedPc
            /\ live' = Held({}, IoObject_drop(matched))
            /\ double_free' = (double_free \/ BadRelease({}, IoObject_drop(matched)))
            /\ UNCHANGED <<pos, l_status, l_result, parent_status, class_prop,
                           av_live, in_scope>>
       ELSE /\ pos' = IoIterator_next
            /\ \E st \in NameStatuses(IoIterator_next) :
                  LET k == IoIterator_next
                      r == get_service_registry_entry_name(k, st)
                  IN  IF ~r.ok
                      THEN LET A == {NodeH(k)}
                               R == IoObject_drop(k) \cup IoObject_drop(matched)
                           IN  /\ l_status' = st
                               /\ l_result' = r.err
                               /\ l_pc' = "done"
                               /\ live' = Held(A, R)
                               /\ double_free' = (double_free \/ BadRelease(A, R))
                               /\ UNCHANGED <<parent_status, class_prop, av_live, in_scope>>
                      ELSE IF IsProxyName(r.str) /\ Qualifies(k)
                      THEN /\ \E pst \in Statuses : \E cls \in ClassReads(pst) :
                                LET A == {NodeH(k)} \cup LocationAcquired(k)
                                            \cup ParentAcquired(k, pst)
                                            \cup ClassAcquired(k, pst, cls)
                                    R == IoObject_drop(k) \cup IoObject_drop(matched)
                                            \cup LocationReleased(k)
                                            \cup ParentReleased(k, pst)
                                            \cup ClassReleased(k, pst, cls)
                                IN  /\ parent_status' = pst
                                    /\ class_prop' = cls
                                    /\ l_result' =
                                          LocateOk(IOAVServiceCreateWithService(k),
                                                   i2c_address(pst, cls))
                                    /\ live' = Held(A, R)
                                    /\ double_free' = (double_free \/ BadRelease(A, R))
                           /\ \E u \in BOOLEAN : in_scope' = u
                           /\ av_live' = av_live \cup AvCreated(k)
                           /\ l_pc' = "done"
                           /\ UNCHANGED l_status
                      ELSE IF IsProxyName(r.str)
                      THEN LET A == {NodeH(k)} \cup LocationAcquired(k)
                               R == IoObject_drop(k) \cup LocationReleased(k)
                           IN  /\ live' = Held(A, R)
                               /\ double_free' = (double_free \/ BadRelease(A, R))
                               /\ av_live' = (av_live \cup AvCreated(k)) \ AvReleasedOnReject(k)
                               /\ UNCHANGED <<l_pc, l_status, l_result, parent_status,
                                              class_prop, in_scope>>
                      ELSE LET A == {NodeH(k)}
                               R == IoObject_drop(k)
                           IN  /\ live' = Held(A, R)
                               /\ double_free' = (double_free \/ BadRelease(A, R))
                               /\ UNCHANGED <<l_pc, l_status, l_result, parent_status,
                                              class_prop, av_live, in_scope>>
    /\ UNCHANGED <<display, location, registry, iter_open, matched, ignored>>
    /\ UNCHANGED evars

LInit ==
    /\ l_pc = "idle"
    /\ display = [builtin |-> TRUE, info |-> [type |-> "absent", str |-> ""]]
    /\ location = ""
    /\ registry = << >>
    /\ iter_open = FALSE
    /\ pos = 0
    /\ next_calls = 0
    /\ matched = 0
    /\ l_status = KERN_SUCCESS
    /\ parent_status = KERN_SUCCESS
    /\ class_prop = NullRef
    /\ l_result = NoLocate
    /\ live = {}
    /\ double_free = FALSE
    /\ av_live = {}
    /\ ignored = {}
    /\ in_scope = TRUE

EInit ==
    /\ e_pc = "idle"
    /\ request_data = << >>
    /\ out_len = 0
    /\ chip = I2C_ADDRESS_DDC_CI
    /\ response_delay = 40
    /\ events = << >>
    /\ e_status = << >>
    /\ e_result = NoResult

Init == EInit /\ LInit

NextExecute == ExecuteCall \/ ExecWrite \/ ExecSleep \/ ExecRead

NextLocate == LocateCall \/ IterRoot \/ OuterNext \/ InnerNext

SpecExecute == Init /\ [][NextExecute]_vars

SpecLocate == Init /\ [][NextLocate]_vars

(***************************************************************************)
(* Properties of execute                                                   *)
(***************************************************************************)
CountOp(o) == Cardinality({i \in 1..Len(events) : events[i].op = o})

WriteSucceeded == Len(e_status) >= 1 /\ e_status[1] = KERN_SUCCESS
WriteFailed == Len(e_status) >= 1 /\ e_status[1] # KERN_SUCCESS

\* The events of a transaction with a response, in order.
ExpectedOps == <<"write", "sleep", "read">>

\* C1: with a request of length >= 1 and an output buffer of length N > 0,
\* once the write has succeeded the external events are exactly one write,
\* one sleep of response_delay and one read of length N at offset 0, in that
\* order, and a successful call returns the caller's buffer of length N.
C1_WriteSleepRead ==
    (Len(request_data) >= 1 /\ out_len > 0 /\ WriteSucceeded) =>
        /\ Len(events) <= 3
        /\ \A i \in 1..Len(events) : events[i].op = ExpectedOps[i]
        /\ e_pc = "sleep" => Len(events) = 1
        /\ e_pc = "read" => Len(events) = 2
        /\ e_pc = "done" => Len(events) = 3
        /\ Len(events) >= 2 => events[2].len = response_delay
        /\ Len(events) = 3 =>
              /\ events[3].len = out_len
              /\ events[3].addr = 0
        /\ (e_pc = "done" /\ e_status[2] = KERN_SUCCESS) =>
              e_result = OkSlice("out", out_len)

C1_Witness ==
    /\ e_pc = "done"
    /\ out_len = 2
    /\ Len(request_data) = 3
    /\ e_result = OkSlice("out", 2)
    /\ Len(events) = 3

\* C2: with a request of length L >= 1 and an empty output buffer, exactly
\* one write occurs, its payload is the request without its first byte
\* (length L-1, same order) at the DDC/CI sub-address, no sleep and no read
\* occur, and on write success the result is an empty slice.
C2_WriteOnly ==
    (e_pc \in {"sleep", "read", "done"} /\ Len(request_data) >= 1 /\ out_len = 0) =>
        /\ e_pc = "done"
        /\ Len(events) = 1
        /\ events[1].op = "write"
        /\ events[1].addr = 81
        /\ events[1].len = Len(request_data) - 1
        /\ Len(events[1].data) = Len(request_data) - 1
        /\ \A i \in 1..(Len(request_data) - 1) : events[1].data[i] = request_data[i + 1]
        /\ request_data = <<110, 81, 130, 1, 16>> =>
              (events[1].data = <<81, 130, 1, 16>> /\ events[1].len = 4)
        /\ WriteSucceeded => e_result = OkSlice("empty", 0)

C2_Witness ==
    /\ e_pc = "done"
    /\ request_data = <<110, 81, 130, 1, 16>>
    /\ out_len = 0
    /\ events = <<WriteEv(chip, 81, <<81, 130, 1, 16>>, 4)>>
    /\ e_result = OkSlice("empty", 0)

\* C3: when the write returns a non-success status c, execute returns with
\* no sleep and no read, whatever the output length, and the error is
\* Kernel(c).
C3_WriteErrorAborts ==
    WriteFailed =>
        /\ e_pc = "done"
        /\ CountOp("sleep") = 0
        /\ CountOp("read") = 0
        /\ Len(events) = 1
        /\ e_result.kind = "Kernel"
        /\ e_result.code = e_status[1]

C3_Witness ==
    /\ e_pc = "done"
    /\ out_len > 0
    /\ e_status = <<2>>
    /\ e_result = ErrKernel(2)

\* C10: execute never retries: at most one write and at most one read per
\* call; when the write succeeds and the read returns a non-success status
\* c, execute returns an error carrying c and no output slice.
C10_NoRetry ==
    /\ CountOp("write") <= 1
    /\ CountOp("read") <= 1
    /\ Len(e_status) <= 2
    /\ (Len(e_status) = 2 /\ e_status[1] = KERN_SUCCESS /\ e_status[2] # KERN_SUCCESS) =>
          /\ e_pc = "done"
          /\ e_result.kind \notin {"Ok", "none"}
          /\ e_result.code = e_status[2]
          /\ e_result.buf = "none"

C10_Witness ==
    /\ e_pc = "done"
    /\ e_status = <<KERN_SUCCESS, 1>>
    /\ CountOp("write") = 1
    /\ CountOp("read") = 1
    /\ e_result.code = 1

(***************************************************************************)
(* Properties of get_display_av_service                                    *)
(***************************************************************************)
Min(S) == CHOOSE x \in S : \A y \in S : x <= y

Returned == l_pc = "done"

\* Node k is named as the proxy, yields a handle and is marked external.
IsQualifyingProxy(k) ==
    /\ registry[k].name = "DCPAVServiceProxy"
    /\ registry[k].loc = "External"
    /\ registry[k].av_null = FALSE

\* The nodes whose resolved path is the display's location string.
LocationNodes == {i \in 1..Len(registry) : registry[i].path = display.info.str}
FirstMatch == IF LocationNodes = {} THEN 0 ELSE Min(LocationNodes)

\* The address the resolver owes for what the parent lookup returned.
ResolvedAddress ==
    IF parent_status = 0 /\ class_prop = "AppleDCPMCDP29XX" THEN 183 ELSE 55

\* C4: for a built-in display locate returns ServiceNotFound, the registry
\* iterator is never opened and next() is never called, whatever the
\* display's metadata.
C4_BuiltinRejected ==
    (l_pc # "idle" /\ display.builtin) =>
        /\ l_pc = "done"
        /\ l_result = ServiceNotFound
        /\ iter_open = FALSE
        /\ next_calls = 0
        /\ pos = 0

C4_Witness ==
    /\ Returned
    /\ display.builtin
    /\ display.info.type = "string"
    /\ l_result = ServiceNotFound

\* C5 as stated: whenever some node whose path equals the display's
\* location is followed immediately by a qualifying proxy, locate returns Ok
\* with the handle of that proxy and the address resolved for it.
C5_AnyMatchFollowedByProxy ==
    (Returned /\ iter_open) =>
        \A i \in LocationNodes :
            (i + 1 <= Len(registry) /\ IsQualifyingProxy(i + 1)) =>
                /\ l_result.kind = "Ok"
                /\ l_result.handle = i + 1
                /\ l_result.addr = ResolvedAddress

\* C5 amended: when the FIRST node whose path equals the display's location
\* is followed immediately by a qualifying proxy, locate returns Ok with the
\* handle of that proxy and the address resolved for it.
C5_FirstMatchFollowedByProxy ==
    (Returned /\ iter_open /\ FirstMatch # 0) =>
        ((FirstMatch + 1 <= Len(registry) /\ IsQualifyingProxy(FirstMatch + 1)) =>
            /\ l_result.kind = "Ok"
            /\ l_result.handle = FirstMatch + 1
            /\ l_result.addr = ResolvedAddress)

C5_Witness ==
    /\ Returned
    /\ Len(registry) >= 3
    /\ FirstMatch = 2
    /\ IsQualifyingProxy(3)
    /\ l_result = LocateOk(3, ResolvedAddress)

\* The proxy-named node right after the matched node is not external.
RejectedSibling ==
    /\ iter_open
    /\ FirstMatch # 0
    /\ FirstMatch + 1 <= Len(registry)
    /\ registry[FirstMatch + 1].name = "DCPAVServiceProxy"
    /\ registry[FirstMatch + 1].loc # "External"

LaterQualifying ==
    {j \in (FirstMatch + 2)..Len(registry) : IsQualifyingProxy(j)}
LaterNameFailures ==
    {j \in (FirstMatch + 2)..Len(registry) : registry[j].name = "fail"}
Exhausted == next_calls > Len(registry)

\* C6 as stated: a non-external proxy sibling is not returned and the search
\* continues; a later qualifying candidate is returned if one exists;
\* exhaustion without a qualifying candidate, also with no location match at
\* all, gives ServiceNotFound.
C6_ContinuesToLaterCandidate ==
    /\ (Returned /\ RejectedSibling) =>
          /\ ~(l_result.kind = "Ok" /\ l_result.handle = FirstMatch + 1)
          /\ next_calls >= FirstMatch + 2
          /\ LaterQualifying # {} =>
                (l_result.kind = "Ok" /\ l_result.handle \in LaterQualifying)
          /\ (LaterQualifying = {} /\ Exhausted) => l_result = ServiceNotFound
    /\ (Returned /\ iter_open /\ LocationNodes = {}) => l_result = ServiceNotFound

\* C6 amended: a non-external proxy sibling is not returned and the search
\* continues; the first later qualifying candidate is returned unless the
\* name lookup of a node pulled before it fails with status c, and then
\* locate returns Kernel(c); exhaustion without a qualifying candidate, also
\* with no location match at all, gives ServiceNotFound.
C6_ContinuesUnlessNameFails ==
    /\ (Returned /\ RejectedSibling) =>
          /\ ~(l_result.kind = "Ok" /\ l_result.handle = FirstMatch + 1)
          /\ next_calls >= FirstMatch + 2
          /\ (/\ LaterQualifying # {}
              /\ \A j \in LaterNameFailures : j > Min(LaterQualifying)) =>
                (l_result.kind = "Ok" /\ l_result.handle = Min(LaterQualifying))
          /\ (/\ LaterNameFailures # {}
              /\ \A j \in LaterQualifying : j > Min(LaterNameFailures)) =>
                (/\ l_result.kind = "Kernel"
                 /\ l_result.code = l_status
                 /\ l_status # 0
                 /\ pos = Min(LaterNameFailures))
          /\ (LaterQualifying = {} /\ Exhausted) => l_result = ServiceNotFound
          /\ (LaterQualifying = {} /\ LaterNameFailures = {}) =>
                (Exhausted /\ l_result = ServiceNotFound)
    /\ (Returned /\ iter_open /\ LocationNodes = {}) =>
          (Exhausted /\ l_result = ServiceNotFound)

C6_Witness ==
    /\ Returned
    /\ RejectedSibling
    /\ registry[FirstMatch + 1].loc = "Embedded"
    /\ LaterQualifying # {}
    /\ l_result.kind = "Ok"
    /\ l_result.handle = FirstMatch + 2

\* C7: a handle locate returns was made from a node pulled after a node
\* whose path equals the display's location, named DCPAVServiceProxy, with a
\* present Location equal to "External", and is non-null.
C7_OnlyQualifiedReturned ==
    l_result.kind = "Ok" =>
        /\ l_result.handle # 0
        /\ l_result.handle \in 1..Len(registry)
        /\ l_result.handle = pos
        /\ \E m \in 1..(l_result.handle - 1) : registry[m].path = display.info.str
        /\ registry[l_result.handle].name = "DCPAVServiceProxy"
        /\ registry[l_result.handle].loc # NullRef
        /\ registry[l_result.handle].loc = "External"
        /\ registry[l_result.handle].av_null = FALSE

C7_Witness ==
    /\ Returned
    /\ l_result.kind = "Ok"
    /\ l_result.handle = Len(registry)
    /\ \E j \in 1..(Len(registry) - 1) :
          registry[j].name = "DCPAVServiceProxy" /\ registry[j].av_null

\* C8: the resolved address is 0xB7 exactly when the parent lookup succeeds
\* and the parent's "EPICProviderClass" is "AppleDCPMCDP29XX", and 0x37 in
\* every other case; locate returns no other address.
C8_ChipAddress ==
    l_result.kind = "Ok" =>
        /\ l_result.addr \in {55, 183}
        /\ l_result.addr = 183 <=>
              (parent_status = 0 /\ class_prop = "AppleDCPMCDP29XX")
        /\ (parent_status # 0 \/ class_prop = NullRef
                \/ class_prop # "AppleDCPMCDP29XX") => l_result.addr = 55

C8_Witness ==
    /\ Returned
    /\ l_result.kind = "Ok"
    /\ l_result.addr = 183
    /\ parent_status = 0
    /\ class_prop = "AppleDCPMCDP29XX"

\* C9: for a display that is not built-in and whose metadata lacks
\* "IODisplayLocation" or holds a non-string there, locate returns
\* DisplayLocationNotFound before the iterator is opened or a node pulled.
C9_LocationNotFound ==
    (l_pc # "idle" /\ ~display.builtin /\ display.info.type # "string") =>
        /\ l_pc = "done"
        /\ l_result = DisplayLocationNotFound
        /\ l_result # ServiceNotFound
        /\ iter_open = FALSE
        /\ next_calls = 0
        /\ pos = 0

C9_Witness ==
    /\ Returned
    /\ ~display.builtin
    /\ display.info.type = "number"
    /\ l_result = DisplayLocationNotFound
(***************************************************************************)
(* Handle ownership                                                        *)
(***************************************************************************)
\* C11: when get_display_av_service has returned, every registry handle it
\* acquired (each node the iterator yielded, the parent entry read by
\* i2c_address, each property value) has been released exactly once: none is
\* still held and none was released while not held.
C11_RegistryHandlesReleased ==
    Returned => (live = {} /\ ~double_free)

\* C12: when get_display_av_service has returned, the number of non-null
\* IOAVService handles constructed and not released is 1 if it returned Ok
\* and 0 otherwise.
C12_OneCommunicationHandle ==
    Returned =>
        Cardinality(av_live) = (IF l_result.kind = "Ok" THEN 1 ELSE 0)

(***************************************************************************)
(* Kernel statuses during the walk                                         *)
(***************************************************************************)
\* The first node after the first match whose name lookup fails with no
\* qualifying candidate before it (0 when there is none).
FirstNameFailure ==
    IF FirstMatch = 0 THEN 0
    ELSE LET F == {j \in (FirstMatch + 1)..Len(registry) :
                      /\ registry[j].name = "fail"
                      /\ \A i \in (FirstMatch + 1)..(j - 1) : ~IsQualifyingProxy(i)}
         IN  IF F = {} THEN 0 ELSE Min(F)

\* C13: whenever the path lookup or the name lookup of a yielded
\* node returned a non-success status, get_display_av_service returns the
\* Kernel error.
C13_EveryStatusPropagates ==
    Returned =>
        /\ (ignored # {} => l_result.kind = "Kernel")
        /\ (l_status # KERN_SUCCESS => l_result = LocateKernel(l_status))

(***************************************************************************)
(* Order of the search                                                      *)
(***************************************************************************)
\* Every lookup made so far returned success.
AllLookupsSucceeded == ignored = {} /\ l_status = KERN_SUCCESS

\* The qualifying proxies strictly after the first location match.
CandidatesAfterFirstMatch ==
    IF FirstMatch = 0 THEN {}
    ELSE {j \in (FirstMatch + 1)..Len(registry) : IsQualifyingProxy(j)}

\* C14: only the first location match starts the proxy search and no node at
\* or before it is a candidate; when all lookups succeed the call returns the
\* handle of the first qualifying proxy strictly after that match and pulls
\* no node after it; when there is none it returns ServiceNotFound once the
\* iterator is exhausted, without going back.
C14_FirstMatchWins ==
    /\ matched \in {0, FirstMatch}
    /\ (Returned /\ iter_open /\ AllLookupsSucceeded) =>
          IF CandidatesAfterFirstMatch = {}
          THEN /\ l_result = ServiceNotFound
               /\ Exhausted
               /\ pos = Len(registry)
          ELSE /\ l_result.kind = "Ok"
               /\ l_result.handle = Min(CandidatesAfterFirstMatch)
               /\ pos = Min(CandidatesAfterFirstMatch)
               /\ next_calls = pos

C14_Witness ==
    /\ Returned
    /\ AllLookupsSucceeded
    /\ l_result.kind = "Ok"
    /\ \E j \in 1..(FirstMatch - 1) : IsQualifyingProxy(j)
    /\ \E j \in (l_result.handle + 1)..Len(registry) : IsQualifyingProxy(j)
    /\ pos = l_result.handle

\* C15 (as stated): every proxy node whose handle is returned lies in the
\* subtree of the matched node or of its parent.
C15_ReturnedUnderMatch ==
    (Returned /\ l_result.kind = "Ok") => in_scope

\* C15 (amended): the node whose handle is returned is the first qualifying
\* proxy after the first location match in traversal order, wherever it lies
\* in the registry tree.
C15_ReturnedNextInTraversal ==
    (Returned /\ l_result.kind = "Ok") =>
        /\ matched # 0
        /\ matched = FirstMatch
        /\ l_result.handle > matched
        /\ IsQualifyingProxy(l_result.handle)
        /\ \A j \in (matched + 1)..(l_result.handle - 1) : ~IsQualifyingProxy(j)

C15_Witness ==
    /\ Returned
    /\ l_result.kind = "Ok"
    /\ ~in_scope
    /\ l_result.handle > matched + 1

\* C16: when, after the location match, a name lookup fails with status c
\* before any qualifying candidate, the call returns Kernel(c) at that node:
\* next() is not called again and no later candidate is returned.
C16_NameFailureStopsSearch ==
    (Returned /\ FirstNameFailure # 0) =>
        /\ l_status \in ErrCodes
        /\ l_result = LocateKernel(l_status)
        /\ pos = FirstNameFailure
        /\ next_calls = FirstNameFailure

C16_Witness ==
    /\ Returned
    /\ FirstNameFailure # 0
    /\ l_result.kind = "Kernel"
    /\ l_result.code = MaxErrCode
    /\ \E j \in (FirstNameFailure + 1)..Len(registry) : IsQualifyingProxy(j)

\* C17 (as stated): next() is called at most N+1 times for N nodes.
C17_AtMostNPlus1Calls ==
    iter_open => next_calls <= Len(registry) + 1

\* C17 (amended): each node is yielded at most once, in order, and next() is
\* called at most N+2 times; a call that has made N+2 calls has returned, so
\* the walk ends.  The N+2nd call is the outer loop's, made after the inner
\* loop met the end of the iterator.
C17_AtMostNPlus2Calls ==
    iter_open =>
        /\ pos <= Len(registry)
        /\ pos <= next_calls
        /\ next_calls <= pos + 2
        /\ next_calls <= Len(registry) + 2
        /\ (next_calls > pos => pos = Len(registry))
        /\ (next_calls = Len(registry) + 2 =>
               Returned /\ matched # 0 /\ l_result = ServiceNotFound)
        /\ (next_calls = Len(registry) + 1 /\ matched = 0 => Returned)

C17_Witness ==
    /\ Returned
    /\ Len(registry) = MaxLongNodes
    /\ next_calls = Len(registry) + 2

(***************************************************************************)
(* The first byte of the request                                           *)
(***************************************************************************)
FirstBytes == ReqBytes \cup ChipAddresses \cup {0, 255}

\* The request with its first byte replaced by b.
WithFirstByte(b) == <<b>> \o Tail(request_data)

\* The external calls of a whole transaction for request r.
CallsFor(r) == <<WriteArgs(chip, r), SleepEv(response_delay), ReadEv(chip, 0, out_len)>>

\* What execute returns, from the statuses of the calls and the output length.
ResultFor(sts, n) ==
    IF sts[Len(sts)] # KERN_SUCCESS THEN ErrKernel(sts[Len(sts)])
    ELSE IF n = 0 THEN OkSlice("empty", 0)
    ELSE OkSlice("out", n)

\* C18: the chip address of the write and of the read is the i2c_address
\* argument, and the first byte of the request reaches no external call and
\* not the result: the calls issued are those of the same request with any
\* other first byte, and the result depends only on the statuses and the
\* output length.
C18_FirstByteUnused ==
    Len(request_data) >= 1 =>
        /\ \A i \in 1..Len(events) :
              events[i].op \in {"write", "read"} => events[i].chip = chip
        /\ \A b \in FirstBytes :
              events = SubSeq(CallsFor(WithFirstByte(b)), 1, Len(events))
        /\ (e_pc = "done" => e_result = ResultFor(e_status, out_len))

C18_Witness ==
    /\ e_pc = "done"
    /\ Len(events) = 3
    /\ Len(request_data) = MaxReqLen
    /\ request_data[1] # chip
    /\ e_result.kind = "Ok"

\* C19: execute with an empty request stops at the slice, before any write,
\* sleep or read; every write that is issued has the length of its payload,
\* which is the request's length minus one and never below zero; a request
\* of one byte issues a write of an empty payload of length 0.
C19_EmptyRequestAborts ==
    /\ (e_pc \notin {"idle", "write"} /\ Len(request_data) = 0) =>
          /\ e_pc = "done"
          /\ e_result = Panicked
          /\ events = << >>
          /\ e_status = << >>
    /\ \A i \in 1..Len(events) :
          events[i].op = "write" =>
              /\ events[i].len >= 0
              /\ events[i].len = Len(request_data) - 1
              /\ events[i].len = Len(events[i].data)
    /\ (e_pc \notin {"idle", "write"} /\ Len(request_data) = 1) =>
          events[1] = WriteEv(chip, SUB_ADDRESS_DDC_CI, << >>, 0)

C19_Witness ==
    /\ e_pc = "done"
    /\ Len(request_data) = 0
    /\ e_result = Panicked
    /\ events = << >>

====
